---- MODULE Spec2Model ----
(***************************************************************************)
(* Model of package iox (src/iox/reader.go): the four channel-backed       *)
(* io.Reader adapters readerChanString, readerChanReadonlyString,          *)
(* readerChanByteSlice and readerChanReadonlyByteSlice, their Read and     *)
(* Close methods, the Go channel they wrap and the producer feeding it.    *)
(*                                                                         *)
(* Bytes are natural numbers.  The producer labels the bytes it sends      *)
(* 1, 2, 3, ... in send order, so that a lost, duplicated, reordered or    *)
(* overwritten byte is visible in what the reader delivers.  Read only     *)
(* copies bytes and never inspects them, so nothing is lost by that.  A    *)
(* fresh destination buffer holds zero bytes (make([]byte, cap)).          *)
(*                                                                         *)
(* A Read call is two steps, split at its one blocking point, the channel  *)
(* receive.  A run-time panic inside Read ends the consumer (pc = "panic");*)
(* a panic of close(r.ch) is recorded as the outcome of that Close call;   *)
(* a panic of the producer ends the producer (prodFault).                  *)
(***************************************************************************)
EXTENDS Integers, Sequences, FiniteSets, TLC

\* ------------------------------------------------------------------ bounds
MaxChunkLen == 2   \* longest ordinary chunk the producer sends
MaxCap      == 3   \* largest destination capacity a Read is given
MaxSends    == 2   \* chunks the producer sends
MaxCalls    == 3   \* Read calls the consumer issues
MaxCloses   == 2   \* Close calls issued on the adapter
ChanCap     == 1   \* buffer capacity of the wrapped channel
LiveSends   == 1   \* chunks sent in the runs checked for progress
LiveCalls   == 2   \* Read calls issued in the runs checked for progress

\* The chunk of length 10 of the undersized-read scenario: besides the
\* ordinary chunks, the producer may send a chunk of this length.
LongChunk == <<1, 2, 3, 4, 5, 6, 7, 8, 9, 10>>

Kinds == {"ChanString", "ChanReadonlyString", "ChanByteSlice", "ChanReadonlyByteSlice"}

ChunkLens == (0..MaxChunkLen) \cup {Len(LongChunk)}
Caps      == 0..MaxCap

VARIABLES
  front,      \* the ReaderFromInterface call, if the reader was made by one
  kind,       \* which of the four adapter types wraps the channel
  ch,         \* chunks buffered in the channel, oldest first
  closed,     \* the channel has been closed
  closedBy,   \* "none", "producer" or "adapter"
  sent,       \* every chunk the producer has sent, in order
  prodFault,  \* the producer panicked (send on / close of a closed channel)
  buf,        \* r.buf, the residual
  pc,         \* the consumer: "idle", "recv" (inside Read, at the receive), "panic"
  p,          \* the destination of the Read call in progress
  w,          \* Read's local w
  cur,        \* what the Read call in progress started from
  calls,      \* Read calls begun so far
  capMin,     \* the smallest destination capacity those calls were given
  capMax,     \* the largest
  last,       \* what the most recent returned Read call returned
  delivered,  \* the bytes the returned calls delivered, concatenated
  closeRets   \* the outcome of each Close call, in call order

vars == <<front, kind, ch, closed, closedBy, sent, prodFault, buf, pc, p, w, cur,
          calls, capMin, capMax, last, delivered, closeRets>>

\* ----------------------------------------------------------------- helpers
Min(a, b) == IF a <= b THEN a ELSE b

Max(a, b) == IF a >= b THEN a ELSE b

Zeros(n) == [i \in 1..n |-> 0]

\* faulty variant: the slice starts one byte early
SliceFrom_OneEarly(s, from) == IF from = 0 THEN s ELSE SubSeq(s, from, Len(s))

\* s[from:] in Go, with from counted from 0
SliceFrom(s, from) == SubSeq(s, from + 1, Len(s))

\* s[:to] in Go
SliceTo(s, to) == SubSeq(s, 1, to)

\* Go's builtin copy(dst, src): the number of bytes copied ...
CopyN(dst, src) == Min(Len(dst), Len(src))

\* ... and dst afterwards: the bytes land at dst[0:], wherever earlier copies went
CopyInto(dst, src) ==
  [i \in 1..Len(dst) |-> IF i <= CopyN(dst, src) THEN src[i] ELSE dst[i]]

\* []byte(str): the bytes of the string, in order
ByteSliceOfString(str) == [i \in 1..Len(str) |-> str[i]]

\* the chunk as the byte slice Read works on
BytesOfChunk(c) ==
  IF kind \in {"ChanString", "ChanReadonlyString"} THEN ByteSliceOfString(c) ELSE c

Closable == kind \in {"ChanString", "ChanByteSlice"}

RECURSIVE Flatten(_)
Flatten(chunks) ==
  IF chunks = <<>> THEN <<>> ELSE Head(chunks) \o Flatten(Tail(chunks))

\* the chunk of the given length the producer sends next
NextChunk(len) == [i \in 1..len |-> Len(Flatten(sent)) + i]

\* --------------------------------------------------------------- the channel
\* faulty variant: a receive on a closed, drained channel blocks like one on an open channel
CanReceive_BlocksWhenClosed == Len(ch) > 0

\* a receive proceeds when a chunk is buffered or the channel is closed
CanReceive == Len(ch) > 0 \/ closed

\* faulty variant: open reports the close even while a chunk is handed over
ReceiveOpen_FalseOnceClosed == ~closed

\* faulty variant: open is inferred from the value received
ReceiveOpen_NonEmptyValue == Len(ch) > 0 /\ Head(ch) /= <<>>

\* the second result of  v, open := <-ch
ReceiveOpen == Len(ch) > 0

\* the first result: the oldest chunk, or the zero value on closed-and-drained
ReceiveValue == IF Len(ch) > 0 THEN Head(ch) ELSE <<>>

\* faulty variant: closing a closed channel is swallowed
CloseOutcome_Swallowed == "nil"

\* close(ch): panics on a closed channel
CloseOutcome == IF closed THEN "panic" ELSE "nil"

\* before any Read call has returned
NoRet ==
  [cap |-> 0, n |-> 0, eof |-> FALSE, data |-> <<>>, recv |-> "none",
   took |-> FALSE, got |-> <<>>, resid |-> <<>>, startClosed |-> FALSE, startDrained |-> FALSE,
   bufAfter |-> <<>>]

\* ------------------------------------------------------ ReaderFromInterface
\* The dynamic types of the values given to ReaderFromInterface.  The first
\* nine are the shapes it serves (*strings.Reader and *bytes.Buffer are
\* io.Readers); the others are not served.
InputTypes ==
  {"string", "[]byte", "*strings.Reader", "*bytes.Buffer", "bytes.Buffer",
   "<-chan string", "chan string", "<-chan []byte", "chan []byte",
   "chan<- string", "int", "nil"}

\* a value: its dynamic type and which value of that type it is
Inputs == [type : InputTypes, id : 1..2]

\* the cases of the type switch, in source order
Cases ==
  <<"string", "[]byte", "io.Reader", "bytes.Buffer",
    "<-chan string", "chan string", "<-chan []byte", "chan []byte">>

\* the types with a Read([]byte) (int, error) method
ImplementsReader(t) == t \in {"*strings.Reader", "*bytes.Buffer"}

\* faulty variant: a bidirectional channel is taken where a receive-only one
\* is asked for, as assignment would allow
CaseMatches_Assignable(c, t) ==
  \/ IF c = "io.Reader" THEN ImplementsReader(t) ELSE t = c
  \/ (c = "<-chan string" /\ t = "chan string")
  \/ (c = "<-chan []byte" /\ t = "chan []byte")

\* a case of a type switch matches an interface type the value implements,
\* and any other type only when it is the value's dynamic type
CaseMatches(c, t) == IF c = "io.Reader" THEN ImplementsReader(t) ELSE t = c

\* the first case that matches, 0 for the default case
FirstCase(t) ==
  IF \E i \in 1..Len(Cases) : CaseMatches(Cases[i], t)
    THEN CHOOSE i \in 1..Len(Cases) :
           /\ CaseMatches(Cases[i], t)
           /\ \A j \in 1..(i - 1) : ~CaseMatches(Cases[j], t)
    ELSE 0

\* what each case returns: the type of the reader
CaseReader(c, t) ==
  CASE c = "string"        -> "*strings.Reader"
    [] c = "[]byte"        -> "*bytes.Reader"
    [] c = "io.Reader"     -> t
    [] c = "bytes.Buffer"  -> "*bytes.Buffer"
    [] c = "<-chan string" -> "ChanReadonlyString"
    [] c = "chan string"   -> "ChanString"
    [] c = "<-chan []byte" -> "ChanReadonlyByteSlice"
    [] c = "chan []byte"   -> "ChanByteSlice"

\* the outcome of ReaderFromInterface(x): a reader, or a panic with
\* ReaderUnrefinableFromInterface{wat: x}
ReaderFromInterface(x) ==
  IF FirstCase(x.type) = 0
    THEN [panic |-> TRUE, wat |-> <<x>>, reader |-> "none"]
    ELSE [panic |-> FALSE, wat |-> <<>>,
          reader |-> CaseReader(Cases[FirstCase(x.type)], x.type)]

\* no ReaderFromInterface call
NoFront == [input |-> <<>>, out |-> <<>>]

\* ------------------------------------------------------------------ Init
AdapterInit ==
  /\ ch = <<>>
  /\ closed = FALSE
  /\ closedBy = "none"
  /\ sent = <<>>
  /\ prodFault = FALSE
  /\ buf = <<>>
  /\ pc = "idle"
  /\ p = <<>>
  /\ w = 0
  /\ cur = [resid |-> <<>>, startClosed |-> FALSE, startDrained |-> FALSE]
  /\ calls = 0
  /\ capMin = MaxCap
  /\ capMax = 0
  /\ last = NoRet
  /\ delivered = <<>>
  /\ closeRets = <<>>

\* an adapter made by one of the four ReaderFromChan... constructors
Init ==
  /\ front = NoFront
  /\ kind \in Kinds
  /\ AdapterInit

\* ------------------------------------------------------------ the producer
Send(len) ==
  /\ ~prodFault
  /\ IF closed
       THEN /\ prodFault' = TRUE
            /\ UNCHANGED <<ch, sent>>
       ELSE /\ Len(ch) < ChanCap
            /\ ch' = Append(ch, NextChunk(len))
            /\ sent' = Append(sent, NextChunk(len))
            /\ UNCHANGED prodFault
  /\ UNCHANGED <<front, kind, closed, closedBy, buf, pc, p, w, cur, calls, capMin, capMax, last,
                 delivered, closeRets>>

ProducerClose ==
  /\ ~prodFault
  /\ IF closed
       THEN /\ prodFault' = TRUE
            /\ UNCHANGED <<closed, closedBy>>
       ELSE /\ closed' = TRUE
            /\ closedBy' = "producer"
            /\ UNCHANGED prodFault
  /\ UNCHANGED <<front, kind, ch, sent, buf, pc, p, w, cur, calls, capMin, capMax, last,
                 delivered, closeRets>>

\* ------------------------------------------------------------------- Read
\* faulty variant: the open flag is not consulted
EofSignal_IgnoresOpen(open, newbuf) == Len(newbuf) = 0

\* faulty variant: && for ||
EofSignal_AndForOr(open, newbuf) == ~(open /\ Len(newbuf) > 0)

\* faulty variant: the sense of open is inverted
EofSignal_OpenInverted(open, newbuf) == ~(~open \/ Len(newbuf) > 0)

\* the error result: io.EOF or nil
EofSignal(open, newbuf) == ~(open \/ Len(newbuf) > 0)

\* what the caller gets out of a destination dst when told n bytes were written
Delivered(dst, n) == SliceTo(dst, Min(n, Len(dst)))

\* the record of one returned call: its results, and what it started from and left
Ret(dst, n, eof, recv, took, got, start, newbuf) ==
  [cap |-> Len(dst), n |-> n, eof |-> eof, data |-> Delivered(dst, n),
   recv |-> recv, took |-> took, got |-> got, resid |-> start.resid, startClosed |-> start.startClosed,
   startDrained |-> start.startDrained,
   bufAfter |-> newbuf]

\* faulty variant: the test is off by one
FitsWhole_OffByOne(cap, resid) == cap + 1 >= Len(resid)

\* faulty variant: the undersized branch is never taken
FitsWhole_Always(cap, resid) == TRUE

\* len(p) >= len(r.buf): the destination has room for the whole residual
FitsWhole(cap, resid) == cap >= Len(resid)

\* Read up to the receive: the residual is copied out, or the call returns
\* from the undersized branch, or the slice expression of that branch panics.
ReadBegin(cap) ==
  /\ pc = "idle"
  /\ calls' = calls + 1
  /\ capMin' = Min(capMin, cap)
  /\ capMax' = Max(capMax, cap)
  /\ cur' = [resid |-> buf, startClosed |-> closed,
             startDrained |-> closed /\ ch = <<>>]
  /\ UNCHANGED <<front, kind, ch, closed, closedBy, sent, prodFault, closeRets>>
  /\ IF Len(buf) = 0
       THEN /\ p' = Zeros(cap)
            /\ w' = 0
            /\ pc' = "recv"
            /\ UNCHANGED <<buf, last, delivered>>
       ELSE IF FitsWhole(cap, buf)
         THEN /\ p' = CopyInto(Zeros(cap), buf)
              /\ w' = CopyN(Zeros(cap), buf)
              /\ buf' = SliceTo(buf, 0)
              /\ pc' = "recv"
              /\ UNCHANGED <<last, delivered>>
         ELSE IF cap > 0
           THEN \* r.buf[len(p):0] with len(p) > 0: slice bounds out of range
                /\ p' = CopyInto(Zeros(cap), SliceTo(buf, cap))
                /\ w' = CopyN(Zeros(cap), SliceTo(buf, cap))
                /\ pc' = "panic"
                /\ UNCHANGED <<buf, last, delivered>>
           ELSE \* r.buf[0:0], and return w, nil
                /\ buf' = SliceTo(buf, 0)
                /\ p' = <<>>
                /\ w' = 0
                /\ pc' = "idle"
                /\ last' = Ret(Zeros(cap), CopyN(Zeros(cap), SliceTo(buf, cap)),
                               FALSE, "none", FALSE, <<>>, cur', buf')
                /\ delivered' = delivered \o last'.data

\* Read from the receive to its return
ReadRecv ==
  /\ pc = "recv"
  /\ CanReceive
  /\ LET open  == ReceiveOpen
         bytes == BytesOfChunk(ReceiveValue)
         w2    == CopyN(p, bytes)
         dst   == CopyInto(p, bytes)
     IN /\ ch' = IF Len(ch) > 0 THEN Tail(ch) ELSE ch
        /\ buf' = SliceFrom(bytes, w2)
        /\ last' = Ret(dst, w + w2, EofSignal(open, buf'),
                       IF open THEN "chunk" ELSE "closed", Len(ch) > 0, bytes,
                       cur, buf')
        /\ delivered' = delivered \o last'.data
  /\ pc' = "idle"
  /\ p' = <<>>
  /\ w' = 0
  /\ UNCHANGED <<front, kind, closed, closedBy, sent, prodFault, cur, calls, capMin, capMax, closeRets>>

\* ------------------------------------------------------------------ Close
Close ==
  /\ Closable
  /\ Len(closeRets) < MaxCloses
  /\ closeRets' = Append(closeRets, CloseOutcome)
  /\ IF closed
       THEN UNCHANGED <<closed, closedBy>>
       ELSE /\ closed' = TRUE
            /\ closedBy' = "adapter"
  /\ UNCHANGED <<front, kind, ch, sent, prodFault, buf, pc, p, w, cur, calls, capMin, capMax,
                 last, delivered>>

\* ------------------------------------------------------------------- Next
Next ==
  \/ \E len \in ChunkLens : Len(sent) < MaxSends /\ Send(len)
  \/ ProducerClose
  \/ \E cap \in Caps : calls < MaxCalls /\ ReadBegin(cap)
  \/ ReadRecv
  \/ Close

Spec == Init /\ [][Next]_vars

\* The same steps over shorter runs, for the progress properties.
LiveNext ==
  \/ \E len \in ChunkLens : Len(sent) < LiveSends /\ Send(len)
  \/ ProducerClose
  \/ \E cap \in Caps : calls < LiveCalls /\ ReadBegin(cap)
  \/ ReadRecv
  \/ Close

\* The Go scheduler runs a goroutine whose receive can proceed.
FairSpec == Init /\ [][LiveNext]_vars /\ WF_vars(ReadRecv)

\* ------------------------------------------- readers from ReaderFromInterface
\* a value is about to be given to ReaderFromInterface
FrontInit ==
  /\ \E x \in Inputs : front = [input |-> <<x>>, out |-> <<>>]
  /\ kind = "none"
  /\ AdapterInit

\* the ReaderFromInterface call; a channel adapter it returns is then in use
Dispatch ==
  /\ front.out = <<>>
  /\ LET out == ReaderFromInterface(front.input[1])
     IN /\ front' = [front EXCEPT !.out = <<out>>]
        /\ kind' = IF out.reader \in Kinds THEN out.reader ELSE kind
  /\ UNCHANGED <<ch, closed, closedBy, sent, prodFault, buf, pc, p, w, cur, calls,
                 capMin, capMax, last, delivered, closeRets>>

FrontNext ==
  \/ Dispatch
  \/ (kind \in Kinds /\ LiveNext)

FrontSpec == FrontInit /\ [][FrontNext]_vars

\* ================================================================= claims
IsPrefix(a, b) == Len(a) <= Len(b) /\ SubSeq(b, 1, Len(a)) = a

\* some Read call has returned, and none is in progress
Returned == pc = "idle" /\ calls > 0

\* every Read call so far was given a destination of capacity c
AllCapsAre(c) == calls > 0 /\ capMin = c /\ capMax = c

\* C1: with every destination capacity >= 1, the bytes delivered are at every
\* moment a prefix of the concatenation of the chunks sent, and are all of it
\* once end-of-stream is signalled.
C1_OrderPreservation ==
  capMin >= 1 =>
    /\ IsPrefix(delivered, Flatten(sent))
    /\ (last.eof => delivered = Flatten(sent))

\* C2: the byte count a Read call returns lies between 0 and the capacity of
\* its destination.
C2_WrittenWithinCap == last.n >= 0 /\ last.n <= last.cap

\* C3: a Read call signals end-of-stream if and only if its receive observed
\* the channel closed and drained and the residual is empty when it returns;
\* so no call that leaves a residual, and no call returning from the
\* undersized branch, signals it.
C3_EofIffClosedAndEmpty ==
  Returned =>
    /\ last.eof <=> (last.recv = "closed" /\ last.bufAfter = <<>>)
    /\ (buf /= <<>> => ~last.eof)
    /\ (last.recv = "none" => ~last.eof)

C3_Witness ==
  /\ Returned
  /\ last.eof
  /\ last.recv = "closed"
  /\ last.resid /= <<>>
  /\ buf = <<>>

\* C4 as claimed: a Read call begun after the channel was closed that delivers
\* the last byte sent also signals end-of-stream.
C4_EofWithLastByte ==
  (Returned /\ last.startClosed /\ last.n > 0 /\ delivered = Flatten(sent))
    => last.eof

\* C4 as amended: end-of-stream is returned by the call whose receive finds the
\* channel closed and drained, and that call delivers exactly the residual it
\* started with; a call that receives a chunk never signals it, so when the
\* last chunk was received and delivered whole, end-of-stream comes from the
\* next call, which started from a drained channel and writes zero bytes.
C4_EofOnClosedReceive ==
  Returned =>
    /\ (last.eof => /\ last.recv = "closed"
                    /\ last.n = Len(last.resid)
                    /\ last.data = last.resid)
    /\ (last.recv = "chunk" => ~last.eof)
    /\ ((last.startDrained /\ last.resid = <<>>) => (last.eof /\ last.n = 0))

C4_Witness ==
  /\ Returned
  /\ last.eof
  /\ last.n = 0
  /\ last.startDrained
  /\ Len(delivered) > 0
  /\ delivered = Flatten(sent)

\* C5: a Read call whose destination the residual alone fills
\* (1 <= cap <= len(residual)) performs no receive: it is never at the
\* receive, and it returns without having received.
C5_NoSpuriousReceive ==
  /\ (pc = "recv" => ~(Len(p) >= 1 /\ Len(p) <= Len(cur.resid)))
  /\ ((Returned /\ last.cap >= 1 /\ last.cap <= Len(last.resid))
        => last.recv = "none")

\* C6: with one chunk of length 10 sent, the channel closed and every Read
\* given capacity 3, no call faults, the calls return 3, 3, 3, 1 bytes in
\* that order, and none of the first three signals end-of-stream.
C6_UndersizedReads ==
  (sent = <<LongChunk>> /\ closed /\ AllCapsAre(3)) =>
    /\ pc /= "panic"
    /\ (Returned /\ calls <= 4) =>
         /\ last.n = <<3, 3, 3, 1>>[calls]
         /\ (calls < 4 => ~last.eof)

\* the scenario of C7: "ab" then "cd" sent, the channel closed, 3-byte destinations
AbCd == sent = << <<1, 2>>, <<3, 4>> >> /\ closed /\ AllCapsAre(3)

\* C7 as claimed: call 1 writes "abc" without end-of-stream, call 2 writes "d"
\* with end-of-stream.
C7_ConcreteScenario ==
  (AbCd /\ Returned) =>
    /\ (calls = 1 => (last.data = <<1, 2, 3>> /\ last.n = 3 /\ ~last.eof))
    /\ (calls = 2 => (last.data = <<4>> /\ last.n = 1 /\ last.eof))

\* C7 as amended: each call delivers the one chunk it receives: call 1 writes
\* "ab" (2 bytes), call 2 writes "cd" (2 bytes), neither with end-of-stream,
\* and call 3 writes nothing and signals end-of-stream.
C7_OneChunkPerCall ==
  (AbCd /\ Returned) =>
    /\ (calls = 1 => (last.data = <<1, 2>> /\ last.n = 2 /\ ~last.eof))
    /\ (calls = 2 => (last.data = <<3, 4>> /\ last.n = 2 /\ ~last.eof))
    /\ (calls = 3 => (last.data = <<>> /\ last.n = 0 /\ last.eof))

C7_Witness == AbCd /\ Returned /\ calls = 3 /\ last.eof /\ delivered = <<1, 2, 3, 4>>

\* C8: with an empty chunk then a non-empty chunk c sent, the channel closed
\* and every capacity >= 1, no call faults, the bytes delivered are a prefix
\* of c, end-of-stream is not signalled before all of c is delivered.
C8_ZeroLengthTolerance ==
  (Len(sent) = 2 /\ sent[1] = <<>> /\ sent[2] /= <<>> /\ closed /\ capMin >= 1) =>
    /\ pc /= "panic"
    /\ IsPrefix(delivered, sent[2])
    /\ (last.eof => delivered = sent[2])

\* C9: a Close returns normally exactly when it is the first Close of the
\* adapter and the producer had not closed the channel; every other Close
\* ends in a panic.
C9_DoubleCloseFaults ==
  \A i \in 1..Len(closeRets) :
    closeRets[i] = "nil" <=> (i = 1 /\ closedBy = "adapter")

C9_Witness == closeRets = <<"nil", "panic">>

\* C10: once the adapter has closed the channel, a send by the producer
\* panics and puts nothing into the channel; a Read at its receive, whether
\* it got there before or after the Close, returns; and when the channel is
\* drained its receive ends the call with end-of-stream and an empty residual.
C10_AfterClose ==
  /\ [][(closedBy = "adapter" /\ (\E len \in ChunkLens : Send(len)))
          => (prodFault' /\ ch' = ch /\ sent' = sent)]_vars
  /\ ((closedBy = "adapter" /\ pc = "recv") ~> (pc = "idle"))
  /\ [][(closedBy = "adapter" /\ pc = "recv" /\ ch = <<>> /\ pc' = "idle")
          => (last'.eof /\ buf' = <<>>)]_vars

C10_Witness ==
  /\ closedBy = "adapter"
  /\ prodFault
  /\ Returned
  /\ last.eof
  /\ last.resid /= <<>>
  /\ ~last.startClosed

\* the input types ReaderFromInterface serves, and the reader each one gets
Served ==
  [t \in InputTypes \ {"chan<- string", "int", "nil"} |->
     CASE t = "string"          -> "*strings.Reader"
       [] t = "[]byte"          -> "*bytes.Reader"
       [] t = "*strings.Reader" -> "*strings.Reader"
       [] t = "*bytes.Buffer"   -> "*bytes.Buffer"
       [] t = "bytes.Buffer"    -> "*bytes.Buffer"
       [] t = "<-chan string"   -> "ChanReadonlyString"
       [] t = "<-chan []byte"   -> "ChanReadonlyByteSlice"
       [] t = "chan string"     -> "ChanString"
       [] t = "chan []byte"     -> "ChanByteSlice"]

\* C11: ReaderFromInterface returns, for each input shape it serves, the
\* reader of that shape, an adapter with Close exactly for the bidirectional
\* channels; for any other input it panics with the rejected value and
\* returns no reader.
C11_TypeDispatch ==
  front.out /= <<>> =>
    LET x == front.input[1]
        o == front.out[1]
    IN /\ x.type \in DOMAIN Served =>
            /\ ~o.panic
            /\ o.reader = Served[x.type]
            /\ (o.reader \in Kinds => kind = o.reader)
            /\ (o.reader \in Kinds /\ Closable) <=> x.type \in {"chan string", "chan []byte"}
       /\ x.type \notin DOMAIN Served =>
            /\ o.panic
            /\ o.wat = <<x>>
            /\ o.reader = "none"
            /\ kind \notin Kinds

C11_Witness ==
  /\ front.out /= <<>>
  /\ front.input[1].type = "chan []byte"
  /\ kind = "ChanByteSlice"
  /\ closeRets = <<"nil">>

\* the returned call began with a residual its destination could not hold
Undersized == last.resid /= <<>> /\ last.cap < Len(last.resid)

\* C12: a Read call with a non-empty residual R and 0 <= cap < len(R) does
\* not fault, delivers the first cap bytes of R, returns cap without
\* end-of-stream and leaves R without its first cap bytes as the residual.
C12_UndersizedBranch ==
  /\ (pc = "panic" => ~(Len(p) < Len(cur.resid)))
  /\ (Returned /\ Undersized) =>
       /\ last.n = last.cap
       /\ ~last.eof
       /\ last.data = SliceTo(last.resid, last.cap)
       /\ last.bufAfter = SliceFrom(last.resid, last.cap)
       /\ buf = last.bufAfter

\* C13: a Read call with a non-empty residual R that fits its destination and
\* whose receive yields a chunk c delivers R followed by the first
\* min(len(c), cap - len(R)) bytes of c, returns the length of that, and
\* leaves the rest of c as the residual.
C13_ChunkAfterResidual ==
  (Returned /\ last.resid /= <<>> /\ last.cap >= Len(last.resid) /\ last.recv = "chunk") =>
    LET k == Min(Len(last.got), last.cap - Len(last.resid))
    IN /\ last.data = last.resid \o SliceTo(last.got, k)
       /\ last.n = Len(last.resid) + k
       /\ last.bufAfter = SliceFrom(last.got, k)

\* C14: with a single chunk sent that is longer than the capacity every Read
\* is given (>= 1) and the producer doing nothing more, no Read faults and
\* none waits at the receive, the channel empty and open, while bytes of the
\* chunk are undelivered.
C14_DrainWithoutDeadlock ==
  (Len(sent) = 1 /\ ~closed /\ calls > 0 /\ capMin = capMax /\ capMin >= 1
     /\ capMin < Len(sent[1])) =>
    /\ pc /= "panic"
    /\ ~(pc = "recv" /\ ch = <<>> /\ delivered /= sent[1])

\* C15: no Read call ends in a run-time panic.
C15_ReadNeverFaults == pc /= "panic"

\* C16: a Read call with a zero-capacity destination and a non-empty residual
\* delivers nothing, returns 0 without end-of-stream and does no receive.
C16_ZeroCapNoReceive ==
  /\ (Returned /\ last.cap = 0 /\ last.resid /= <<>>) =>
       /\ last.n = 0
       /\ last.data = <<>>
       /\ ~last.eof
       /\ last.recv = "none"
       /\ ~last.took
  /\ (pc = "recv" => ~(Len(p) = 0 /\ cur.resid /= <<>>))

C16_Witness ==
  /\ Returned
  /\ last.cap = 0
  /\ last.resid /= <<>>
  /\ ch /= <<>>

\* C17: a Read call that returns from the undersized branch does no receive,
\* and is never at the receive; every other returned call did one; so the
\* chunks taken from the channel are never more than the calls that returned.
C17_OneReceivePerCall ==
  /\ Returned => (last.recv = "none" <=> Undersized)
  /\ (pc = "recv" => ~(cur.resid /= <<>> /\ Len(p) < Len(cur.resid)))
  /\ Len(sent) - Len(ch) <= calls - (IF pc = "idle" THEN 0 ELSE 1)

C17_Witness ==
  /\ Returned
  /\ Undersized
  /\ last.recv = "none"
  /\ Len(sent) - Len(ch) = calls - 1

IsSuffix(a, b) == Len(a) <= Len(b) /\ SubSeq(b, Len(b) - Len(a) + 1, Len(b)) = a

\* C18: between Read calls the residual is empty or a suffix of the chunk most
\* recently taken from the channel, and holds no byte already delivered.
C18_ResidualIsSuffix ==
  pc = "idle" =>
    LET r == Len(sent) - Len(ch)
    IN /\ buf /= <<>> => (r > 0 /\ IsSuffix(buf, sent[r]))
       /\ \A i \in 1..Len(buf) : \A j \in 1..Len(delivered) : buf[i] /= delivered[j]

C18_Witness ==
  /\ pc = "idle"
  /\ buf /= <<>>
  /\ delivered /= <<>>
  /\ Len(buf) < Len(sent[Len(sent) - Len(ch)])
  /\ Len(sent) - Len(ch) = 2

\* C19: a Read call that starts with an empty residual and takes a
\* zero-length chunk from the channel returns 0 without end-of-stream and
\* leaves the residual empty.
C19_EmptyChunk ==
  (Returned /\ last.resid = <<>> /\ last.took /\ last.got = <<>>) =>
    /\ last.n = 0
    /\ ~last.eof
    /\ last.bufAfter = <<>>
    /\ buf = <<>>

C19_Witness ==
  /\ Returned
  /\ last.resid = <<>>
  /\ last.took
  /\ last.got = <<>>
  /\ ~closed

\* C20: once a Read call has returned end-of-stream, the channel stays closed
\* and drained and the residual empty, so a later Read is never blocked at
\* its receive and never faults, and every later return is 0 bytes with
\* end-of-stream and leaves the residual as it was.
C20_EofSticky ==
  /\ [](last.eof =>
          /\ closed /\ ch = <<>> /\ buf = <<>>
          /\ pc /= "panic"
          /\ (pc = "recv" => CanReceive))
  /\ [][last.eof =>
          /\ last'.eof
          /\ buf' = buf
          /\ ((pc /= "idle" /\ pc' = "idle") => (last'.n = 0 /\ last'.data = <<>>))]_vars

C20_Witness ==
  /\ Returned
  /\ calls = 3
  /\ sent = <<>>
  /\ last.eof
  /\ last.n = 0

====
